---- MODULE Spec2Model ----
(***************************************************************************)
(* Model of numbat's PrefixParser (src/numbat/src/prefix_parser.rs): the     *)
(* registry of units and other identifiers, the registration operations     *)
(* add_unit and add_other_identifier with their collision checks, and the   *)
(* resolver parse.  Strings are TLA+ strings; Len, \o and SubSeq act on     *)
(* them character by character.  Rust slices by bytes, but parse only ever  *)
(* slices an input at the end of a prefix the input starts with, so the     *)
(* remainder is the same string either way (also for the two-byte "µ").     *)
(***************************************************************************)
EXTENDS Integers, Sequences, FiniteSets, TLC

VARIABLES units, other_identifiers, result

vars == <<units, other_identifiers, result>>

(***************************************************************************)
(* Bounds of the exploration.                                               *)
(***************************************************************************)
\* successful add_unit calls explored beyond the test's seed registrations
MaxUnits == 2
\* successful add_other_identifier calls explored
MaxOthers == 1

(***************************************************************************)
(* Prefix (crate::prefix, not part of the excerpt): Metric(e), Binary(e)    *)
(* and the distinguished value none.                                        *)
(***************************************************************************)
Metric(e) == [kind |-> "Metric", exp |-> e]

Binary(e) == [kind |-> "Binary", exp |-> e]

PrefixNone == [kind |-> "None", exp |-> 0]

is_metric(p) == p.kind = "Metric"

is_binary(p) == p.kind = "Binary"

\* the table, had deca been listed before deci
prefixes_deca_first ==
  << <<"quecto", "q", Metric(-30)>>,
     <<"ronto", "r", Metric(-27)>>,
     <<"yocto", "y", Metric(-24)>>,
     <<"zepto", "z", Metric(-21)>>,
     <<"atto", "a", Metric(-18)>>,
     <<"femto", "f", Metric(-15)>>,
     <<"pico", "p", Metric(-12)>>,
     <<"nano", "n", Metric(-9)>>,
     <<"micro", "µ", Metric(-6)>>,
     <<"milli", "m", Metric(-3)>>,
     <<"centi", "c", Metric(-2)>>,
     <<"deca", "da", Metric(1)>>,
     <<"deci", "d", Metric(-1)>>,
     <<"hecto", "h", Metric(2)>>,
     <<"kilo", "k", Metric(3)>>,
     <<"mega", "M", Metric(6)>>,
     <<"giga", "G", Metric(9)>>,
     <<"tera", "T", Metric(12)>>,
     <<"peta", "P", Metric(15)>>,
     <<"exa", "E", Metric(18)>>,
     <<"zetta", "Z", Metric(21)>>,
     <<"yotta", "Y", Metric(24)>>,
     <<"ronna", "R", Metric(27)>>,
     <<"quetta", "Q", Metric(30)>>,
     <<"kibi", "Ki", Binary(10)>>,
     <<"mebi", "Mi", Binary(20)>>,
     <<"gibi", "Gi", Binary(30)>>,
     <<"tebi", "Ti", Binary(40)>>,
     <<"pebi", "Pi", Binary(50)>>,
     <<"exbi", "Ei", Binary(60)>>,
     <<"zebi", "Zi", Binary(70)>>,
     <<"yobi", "Yi", Binary(80)>> >>

(***************************************************************************)
(* The static prefix table, in declaration order: <<long, short, prefix>>.  *)
(***************************************************************************)
prefixes ==
  << <<"quecto", "q", Metric(-30)>>,
     <<"ronto", "r", Metric(-27)>>,
     <<"yocto", "y", Metric(-24)>>,
     <<"zepto", "z", Metric(-21)>>,
     <<"atto", "a", Metric(-18)>>,
     <<"femto", "f", Metric(-15)>>,
     <<"pico", "p", Metric(-12)>>,
     <<"nano", "n", Metric(-9)>>,
     <<"micro", "µ", Metric(-6)>>,
     <<"milli", "m", Metric(-3)>>,
     <<"centi", "c", Metric(-2)>>,
     <<"deci", "d", Metric(-1)>>,
     <<"deca", "da", Metric(1)>>,
     <<"hecto", "h", Metric(2)>>,
     <<"kilo", "k", Metric(3)>>,
     <<"mega", "M", Metric(6)>>,
     <<"giga", "G", Metric(9)>>,
     <<"tera", "T", Metric(12)>>,
     <<"peta", "P", Metric(15)>>,
     <<"exa", "E", Metric(18)>>,
     <<"zetta", "Z", Metric(21)>>,
     <<"yotta", "Y", Metric(24)>>,
     <<"ronna", "R", Metric(27)>>,
     <<"quetta", "Q", Metric(30)>>,
     <<"kibi", "Ki", Binary(10)>>,
     <<"mebi", "Mi", Binary(20)>>,
     <<"gibi", "Gi", Binary(30)>>,
     <<"tebi", "Ti", Binary(40)>>,
     <<"pebi", "Pi", Binary(50)>>,
     <<"exbi", "Ei", Binary(60)>>,
     <<"zebi", "Zi", Binary(70)>>,
     <<"yobi", "Yi", Binary(80)>> >>

(***************************************************************************)
(* AcceptsPrefix and its four constructors.                                 *)
(***************************************************************************)
only_long == [long |-> TRUE, short |-> FALSE]

only_short == [long |-> FALSE, short |-> TRUE]

both == [long |-> TRUE, short |-> TRUE]

none == [long |-> FALSE, short |-> FALSE]

AcceptsPrefix == [short : BOOLEAN, long : BOOLEAN]

UnitInfo(accepts_prefix, metric, binary, full_name) ==
  [accepts_prefix |-> accepts_prefix,
   metric_prefixes |-> metric,
   binary_prefixes |-> binary,
   full_name |-> full_name]

(***************************************************************************)
(* PrefixParserResult.  Panic stands for a failed unwrap() inside parse.    *)
(***************************************************************************)
Identifier(s) == [tag |-> "Identifier", name |-> s]

UnitIdentifier(p, u, f) ==
  [tag |-> "UnitIdentifier", prefix |-> p, unit_name |-> u, full_name |-> f]

Panic == [tag |-> "Panic"]

(***************************************************************************)
(* Result<()> of the registration operations.                               *)
(***************************************************************************)
Ok == [tag |-> "Ok"]

identifier_clash_error(name) == [tag |-> "IdentifierClash", name |-> name]

\* PrefixParser::new(): both collections empty
new == [units |-> <<>>, other_identifiers |-> {}]

(***************************************************************************)
(* str::starts_with and the slice input[prefix.len()..].                    *)
(***************************************************************************)
starts_with(input, prefix) ==
  /\ Len(prefix) <= Len(input)
  /\ SubSeq(input, 1, Len(prefix)) = prefix

slice_from(input, n) == SubSeq(input, n + 1, Len(input))

(***************************************************************************)
(* The strings of the exploration.                                          *)
(***************************************************************************)
\* the registrations of tests::basic, in order
Seed ==
  << <<"meter", only_long, TRUE, FALSE, "meter">>,
     <<"m", only_short, TRUE, FALSE, "meter">>,
     <<"byte", only_long, TRUE, TRUE, "byte">>,
     <<"B", only_short, TRUE, TRUE, "byte">>,
     <<"me", only_short, FALSE, FALSE, "me">> >>

\* the inputs tests::basic parses
TestInputs ==
  {"meter", "m", "byte", "B", "me",
   "kilometer", "millimeter", "kilobyte", "kibibyte", "mebibyte",
   "km", "mm", "kB", "MB", "KiB", "MiB",
   "kilom", "kilome", "kme", "kilomete", "kilometerr", "foometer", "kibimeter", "Kim"}

\* names add_unit is called with
UnitNames == {"m", "kilom", "kilometer"}

\* names add_other_identifier is called with
OtherNames == {"km", "kilom", "Kim"}

\* names the operations are applied to in reached states without a step being taken
AppliedNames == {"kilo"}

FullNames == {"meter"}

\* the families <<metric, binary>> add_unit is called with (tests::basic adds both and neither)
Families == {<<TRUE, FALSE>>, <<FALSE, TRUE>>}

\* unit names of which one is a prefix spelling followed by another, or shares
\* a prefixed string with another: am = a ++ m, dam = da ++ m = d ++ am,
\* kilom = kilo ++ m = k ++ ilom
OverlapNames == {"m", "am", "ilom"}

Names == UnitNames \cup OtherNames \cup AppliedNames \cup {Seed[i][1] : i \in 1..Len(Seed)}

\* the two starts_with tests of each iteration of parse's loop, in the order the
\* loop makes them: entry by entry, the long spelling before the short one
loop_tests ==
  [k \in 1..(2 * Len(prefixes)) |->
     LET i == (k + 1) \div 2
     IN [entry |-> i,
         long |-> (k % 2 = 1),
         spelling |-> prefixes[i][IF k % 2 = 1 THEN 1 ELSE 2],
         prefix |-> prefixes[i][3]]]

\* the tests of the loop that `input` passes, in loop order, each with the
\* slice input[spelling.len()..] its branch looks up; the others do nothing
passed_tests(input) ==
  LET passed == SelectSeq(loop_tests, LAMBDA t : starts_with(input, t.spelling))
  IN [k \in DOMAIN passed |->
        [entry |-> passed[k].entry,
         long |-> passed[k].long,
         spelling |-> passed[k].spelling,
         prefix |-> passed[k].prefix,
         rest |-> slice_from(input, Len(passed[k].spelling))]]

\* the strings of S in some order
RECURSIVE enumerate(_)
enumerate(S) ==
  IF S = {}
  THEN <<>>
  ELSE LET x == CHOOSE y \in S : TRUE
       IN <<x>> \o enumerate(S \ {x})

BareStrings == enumerate(Names \cup TestInputs \cup OverlapNames)

\* format!("{}{}", spelling, name) for the spellings of loop_tests from the k-th on
RECURSIVE format_from(_, _)
format_from(name, k) ==
  IF k > Len(loop_tests)
  THEN <<>>
  ELSE <<loop_tests[k].spelling \o name>> \o format_from(name, k + 1)

\* format_from, tabulated once for the bare strings from the n-th on
RECURSIVE formatted_from(_)
formatted_from(n) ==
  IF n > Len(BareStrings)
  THEN <<>>
  ELSE (BareStrings[n] :> format_from(BareStrings[n], 1)) @@ formatted_from(n + 1)

Formatted == formatted_from(1)

\* format!("{}{}", prefix_long, unit_name) and format!("{}{}", prefix_short, unit_name)
\* of table entry i
format(i, long, unit_name) ==
  Formatted[unit_name][IF long THEN 2 * i - 1 ELSE 2 * i]

\* the k-th string the model parses: a bare string, then its prefixed forms
string_at(k) ==
  LET width == Len(loop_tests) + 1
      bare == BareStrings[((k - 1) \div width) + 1]
      j == (k - 1) % width
  IN IF j = 0 THEN bare ELSE Formatted[bare][j]

\* passed_tests as an explicit table over the strings lo..hi
RECURSIVE tabulate(_, _)
tabulate(lo, hi) ==
  IF lo = hi
  THEN string_at(lo) :> passed_tests(string_at(lo))
  ELSE LET mid == (lo + hi) \div 2
       IN tabulate(lo, mid) @@ tabulate(mid + 1, hi)

\* passed_tests, tabulated once for every string the model parses
PassedTests == tabulate(1, Len(BareStrings) * (Len(loop_tests) + 1))

\* HashMap::get(..).unwrap().full_name, then the UnitIdentifier of a prefixed match
prefixed_match(self, prefix, unit_name) ==
  IF unit_name \in DOMAIN self.units
  THEN UnitIdentifier(prefix, unit_name, self.units[unit_name].full_name)
  ELSE Panic

\* filter, had it forgotten the accepts_prefix bit
filter_any_form(info, prefix, long) ==
  \/ is_metric(prefix) /\ info.metric_prefixes
  \/ is_binary(prefix) /\ info.binary_prefixes

\* filter, had it forgotten the family of the prefix
filter_any_family(info, prefix, long) ==
  IF long THEN info.accepts_prefix.long ELSE info.accepts_prefix.short

\* the filter closure of the long branch (long = TRUE) and of the short branch
filter(info, prefix, long) ==
  /\ IF long THEN info.accepts_prefix.long ELSE info.accepts_prefix.short
  /\ \/ is_metric(prefix) /\ info.metric_prefixes
     \/ is_binary(prefix) /\ info.binary_prefixes

\* parse_test, had it looked up the whole input instead of the slice
parse_test_whole_input(self, input, t, rest, otherwise) ==
  IF \E name \in DOMAIN self.units :
       /\ filter(self.units[name], t.prefix, t.long)
       /\ name = rest
  THEN prefixed_match(self, t.prefix, input)
  ELSE otherwise

\* one passed test of the loop: the any() over the filtered units, then the return
parse_test(self, input, t, rest, otherwise) ==
  IF \E name \in DOMAIN self.units :
       /\ filter(self.units[name], t.prefix, t.long)
       /\ name = rest
  THEN prefixed_match(self, t.prefix, rest)
  ELSE otherwise

\* parse_from, had a later test of the loop won over an earlier one
RECURSIVE parse_from_last(_, _, _, _)
parse_from_last(self, input, tests, k) ==
  IF k > Len(tests)
  THEN Identifier(input)
  ELSE parse_test(self, input, tests[Len(tests) + 1 - k], tests[Len(tests) + 1 - k].rest,
                  parse_from_last(self, input, tests, k + 1))

\* the loop of parse over the prefix table, from the k-th passed test on
RECURSIVE parse_from(_, _, _, _)
parse_from(self, input, tests, k) ==
  IF k > Len(tests)
  THEN Identifier(input)
  ELSE parse_test(self, input, tests[k], tests[k].rest,
                  parse_from(self, input, tests, k + 1))

\* parse, had it only the exact match
parse_exact_only(self, input) ==
  IF input \in DOMAIN self.units
  THEN UnitIdentifier(PrefixNone, input, self.units[input].full_name)
  ELSE Identifier(input)

\* parse, had it only the loop over the prefix table
parse_prefixed_only(self, input) == parse_from(self, input, PassedTests[input], 1)

parse(self, input) ==
  IF input \in DOMAIN self.units
  THEN UnitIdentifier(PrefixNone, input, self.units[input].full_name)
  ELSE parse_from(self, input, PassedTests[input], 1)

\* ensure_name_is_available, had it checked nothing
ensure_nothing(self, name) == Ok

\* ensure_name_is_available, had it not looked into other_identifiers
ensure_not_a_unit(self, name) ==
  IF parse(self, name).tag = "Identifier"
  THEN Ok
  ELSE identifier_clash_error(name)

\* ensure_name_is_available, had it not parsed the name
ensure_not_an_other_identifier(self, name) ==
  IF name \in self.other_identifiers
  THEN identifier_clash_error(name)
  ELSE Ok

ensure_name_is_available(self, name) ==
  IF name \in self.other_identifiers
  THEN identifier_clash_error(name)
  ELSE IF parse(self, name).tag = "Identifier"
       THEN Ok
       ELSE identifier_clash_error(name)

\* the ? operator: an error returns at once, Ok goes on
try(checked, otherwise) == IF checked.tag # "Ok" THEN checked ELSE otherwise

\* check_prefixed_from, had it checked the long forms only
RECURSIVE check_long_from(_, _, _, _, _, _)
check_long_from(self, unit_name, accepts_prefix, metric, binary, i) ==
  IF i > Len(prefixes)
  THEN Ok
  ELSE IF ~((is_metric(prefixes[i][3]) /\ metric) \/ (is_binary(prefixes[i][3]) /\ binary))
       THEN check_long_from(self, unit_name, accepts_prefix, metric, binary, i + 1)
       ELSE try(IF accepts_prefix.long
                THEN ensure_name_is_available(self, format(i, TRUE, unit_name))
                ELSE Ok,
                check_long_from(self, unit_name, accepts_prefix, metric, binary, i + 1))

\* check_prefixed_from, had it checked both forms whatever accepts_prefix says
RECURSIVE check_both_from(_, _, _, _, _, _)
check_both_from(self, unit_name, accepts_prefix, metric, binary, i) ==
  IF i > Len(prefixes)
  THEN Ok
  ELSE IF ~((is_metric(prefixes[i][3]) /\ metric) \/ (is_binary(prefixes[i][3]) /\ binary))
       THEN check_both_from(self, unit_name, accepts_prefix, metric, binary, i + 1)
       ELSE try(ensure_name_is_available(self, format(i, TRUE, unit_name)),
                try(ensure_name_is_available(self, format(i, FALSE, unit_name)),
                    check_both_from(self, unit_name, accepts_prefix, metric, binary, i + 1)))

\* check_prefixed_from, had it checked the short form before the long one
RECURSIVE check_short_first_from(_, _, _, _, _, _)
check_short_first_from(self, unit_name, accepts_prefix, metric, binary, i) ==
  IF i > Len(prefixes)
  THEN Ok
  ELSE IF ~((is_metric(prefixes[i][3]) /\ metric) \/ (is_binary(prefixes[i][3]) /\ binary))
       THEN check_short_first_from(self, unit_name, accepts_prefix, metric, binary, i + 1)
       ELSE try(IF accepts_prefix.short
                THEN ensure_name_is_available(self, format(i, FALSE, unit_name))
                ELSE Ok,
                try(IF accepts_prefix.long
                    THEN ensure_name_is_available(self, format(i, TRUE, unit_name))
                    ELSE Ok,
                    check_short_first_from(self, unit_name, accepts_prefix, metric, binary, i + 1)))

\* the loop of add_unit over the prefix table, from entry i on: the first error, or Ok
RECURSIVE check_prefixed_from(_, _, _, _, _, _)
check_prefixed_from(self, unit_name, accepts_prefix, metric, binary, i) ==
  IF i > Len(prefixes)
  THEN Ok
  ELSE IF ~((is_metric(prefixes[i][3]) /\ metric) \/ (is_binary(prefixes[i][3]) /\ binary))
       THEN check_prefixed_from(self, unit_name, accepts_prefix, metric, binary, i + 1)
       ELSE try(IF accepts_prefix.long
                THEN ensure_name_is_available(self, format(i, TRUE, unit_name))
                ELSE Ok,
                try(IF accepts_prefix.short
                    THEN ensure_name_is_available(self, format(i, FALSE, unit_name))
                    ELSE Ok,
                    check_prefixed_from(self, unit_name, accepts_prefix, metric, binary, i + 1)))

\* HashMap::insert: adds the entry, replacing one with the same key
insert(map, key, value) ==
  [k \in DOMAIN map \cup {key} |-> IF k = key THEN value ELSE map[k]]

\* a call's outcome: the parser after it and the value it returned
outcome(self, returned) == [self |-> self, result |-> returned]

\* the ? operator of a registration: an error leaves the parser as it was
try_outcome(self, checked, otherwise) ==
  IF checked.tag # "Ok" THEN outcome(self, checked) ELSE otherwise

\* add_unit, had it inserted before checking
add_unit_insert_first(self, unit_name, accepts_prefix, metric, binary, full_name) ==
  outcome([self EXCEPT !.units =
             insert(self.units, unit_name,
                    UnitInfo(accepts_prefix, metric, binary, full_name))],
          try(ensure_name_is_available(self, unit_name),
              check_prefixed_from(self, unit_name, accepts_prefix, metric, binary, 1)))

\* add_unit, had it checked the bare name only
add_unit_bare_only(self, unit_name, accepts_prefix, metric, binary, full_name) ==
  try_outcome(self,
    ensure_name_is_available(self, unit_name),
    outcome([self EXCEPT !.units =
               insert(self.units, unit_name,
                      UnitInfo(accepts_prefix, metric, binary, full_name))],
            Ok))

\* add_unit: the checks, then the insert
add_unit(self, unit_name, accepts_prefix, metric, binary, full_name) ==
  try_outcome(self,
    try(ensure_name_is_available(self, unit_name),
        check_prefixed_from(self, unit_name, accepts_prefix, metric, binary, 1)),
    outcome([self EXCEPT !.units =
               insert(self.units, unit_name,
                      UnitInfo(accepts_prefix, metric, binary, full_name))],
            Ok))

\* add_other_identifier: the check, then the insert and the test of its return value
add_other_identifier(self, identifier) ==
  try_outcome(self,
    ensure_name_is_available(self, identifier),
    IF identifier \notin self.other_identifiers
    THEN outcome([self EXCEPT !.other_identifiers = @ \cup {identifier}], Ok)
    ELSE outcome(self, identifier_clash_error(identifier)))

(***************************************************************************)
(* The state machine: one PrefixParser and the value its last call returned.*)
(***************************************************************************)
Self == [units |-> units, other_identifiers |-> other_identifiers]

Init ==
  /\ units = new.units
  /\ other_identifiers = new.other_identifiers
  /\ result = [tag |-> "NoCall"]

\* a call returns: the parser takes its new value, the caller gets the result
Return(r) ==
  /\ units' = r.self.units
  /\ other_identifiers' = r.self.other_identifiers
  /\ result' = r.result

AddUnit(unit_name, accepts_prefix, metric, binary, full_name) ==
  Return(add_unit(Self, unit_name, accepts_prefix, metric, binary, full_name))

AddOtherIdentifier(identifier) ==
  Return(add_other_identifier(Self, identifier))

\* the UnitInfo the i-th registration of tests::basic inserts
SeedInfo(i) == UnitInfo(Seed[i][2], Seed[i][3], Seed[i][4], Seed[i][5])

\* the units registered so far are exactly the first n seed registrations
SeedPrefix(n) ==
  /\ Cardinality(DOMAIN units) = n
  /\ \A i \in 1..n :
       /\ Seed[i][1] \in DOMAIN units
       /\ units[Seed[i][1]] = SeedInfo(i)

\* any add_unit call; a call that registers is explored while fewer than MaxUnits are registered
AnyAddUnit ==
  \E unit_name \in UnitNames, accepts_prefix \in AcceptsPrefix,
     family \in Families, full_name \in FullNames :
    /\ AddUnit(unit_name, accepts_prefix, family[1], family[2], full_name)
    /\ (result'.tag = "Ok" => Cardinality(DOMAIN units) < MaxUnits)

\* the next registration of tests::basic
SeedAddUnit ==
  \E i \in 1..Len(Seed) :
    /\ SeedPrefix(i - 1)
    /\ AddUnit(Seed[i][1], Seed[i][2], Seed[i][3], Seed[i][4], Seed[i][5])

\* any add_other_identifier call; a call that registers is explored while fewer than MaxOthers are
AnyAddOtherIdentifier ==
  \E identifier \in OtherNames :
    /\ AddOtherIdentifier(identifier)
    /\ (result'.tag = "Ok" => Cardinality(other_identifiers) < MaxOthers)

Next == AnyAddUnit \/ SeedAddUnit \/ AnyAddOtherIdentifier

Spec == Init /\ [][Next]_vars

(***************************************************************************)
(* parse on any registry: the parser starts with any units of OverlapNames, *)
(* whether or not registrations could have produced them, and parse is      *)
(* called on it; result holds what the last call returned.                  *)
(***************************************************************************)
UnitInfos ==
  {UnitInfo(accepts_prefix, metric, binary, "meter") :
     accepts_prefix \in AcceptsPrefix, metric \in BOOLEAN, binary \in BOOLEAN}

\* the inputs parse is called with
ParseInputs == {"m", "am", "km", "dam", "kilom", "Kim", "kiloam"}

AnyRegistry ==
  /\ \E registered \in SUBSET OverlapNames : units \in [registered -> UnitInfos]
  /\ other_identifiers = {}
  /\ result = [tag |-> "NoCall"]

Parse(input) == Return(outcome(Self, parse(Self, input)))

AnyParse == \E input \in ParseInputs : Parse(input)

ParseNext == AnyParse

ParseSpec == AnyRegistry /\ [][ParseNext]_vars

(***************************************************************************)
(* Registrations of overlapping names: the operations of Spec, called with  *)
(* the unit names of OverlapNames and the other identifier dam on a parser  *)
(* that starts empty.                                                       *)
(***************************************************************************)
OverlapOtherNames == {"dam"}

OverlapAddUnit ==
  \E unit_name \in OverlapNames, accepts_prefix \in AcceptsPrefix,
     family \in Families, full_name \in FullNames :
    AddUnit(unit_name, accepts_prefix, family[1], family[2], full_name)

OverlapAddOtherIdentifier ==
  \E identifier \in OverlapOtherNames : AddOtherIdentifier(identifier)

OverlapNext == OverlapAddUnit \/ OverlapAddOtherIdentifier

OverlapSpec == Init /\ [][OverlapNext]_vars

(***************************************************************************)
(* Vocabulary of the properties.                                            *)
(***************************************************************************)
SelfNext == [units |-> units', other_identifiers |-> other_identifiers']

Entries == 1..Len(prefixes)

\* the family of table entry i is enabled by the flags metric, binary
Enabled(i, metric, binary) ==
  \/ is_metric(prefixes[i][3]) /\ metric
  \/ is_binary(prefixes[i][3]) /\ binary

\* the prefixed forms a unit admits
Admitted(unit_name, accepts_prefix, metric, binary) ==
  {format(i, TRUE, unit_name) : i \in {j \in Entries : accepts_prefix.long /\ Enabled(j, metric, binary)}}
    \cup
  {format(i, FALSE, unit_name) : i \in {j \in Entries : accepts_prefix.short /\ Enabled(j, metric, binary)}}

AdmittedBy(u) ==
  Admitted(u, units[u].accepts_prefix, units[u].metric_prefixes, units[u].binary_prefixes)

\* every prefix spelling followed by unit_name
Prefixed(unit_name) ==
  {Formatted[unit_name][k] : k \in DOMAIN loop_tests}

\* the strings the properties parse in every state, beside every prefix
\* spelling followed by the name of a registered unit
FixedProbes == Names \cup TestInputs

Spellings == DOMAIN loop_tests

prefixed(k, unit_name) == Formatted[unit_name][k]

Claimed(self, name) ==
  \/ name \in self.other_identifiers
  \/ parse(self, name).tag = "UnitIdentifier"

(***************************************************************************)
(* C1: no string is both a key of units and a member of other_identifiers.  *)
(***************************************************************************)
C1_Disjoint == DOMAIN units \cap other_identifiers = {}

\* a unit and another identifier are registered, and a call for a name of
\* other_identifiers has just been rejected
C1_Witness ==
  /\ DOMAIN units # {}
  /\ result.tag = "IdentifierClash"
  /\ result.name \in other_identifiers

(***************************************************************************)
(* C2: no prefixed form a registered unit admits (long spelling if it       *)
(* accepts long, short spelling if it accepts short, of a family enabled    *)
(* on it) is a registered unit name or a member of other_identifiers.       *)
(***************************************************************************)
C2_AdmittedFormsUnclaimed ==
  \A u \in DOMAIN units :
    AdmittedBy(u) \cap (DOMAIN units \cup other_identifiers) = {}

\* a call for a prefixed form admitted by a registered unit has just been rejected
C2_Witness ==
  /\ result.tag = "IdentifierClash"
  /\ \E u \in DOMAIN units : result.name \in AdmittedBy(u)

(***************************************************************************)
(* C3: a call that returns IdentifierClash leaves units and                 *)
(* other_identifiers as they were, and so every parse result.               *)
(***************************************************************************)
C3_FailureChangesNothing ==
  [][result'.tag = "IdentifierClash" =>
       /\ units' = units
       /\ other_identifiers' = other_identifiers
       /\ \A s \in FixedProbes : parse(SelfNext, s) = parse(Self, s)]_vars

\* a call has just been rejected by a parser that holds a unit and another identifier
C3_Witness ==
  /\ result.tag = "IdentifierClash"
  /\ DOMAIN units # {}
  /\ other_identifiers # {}
  /\ result.name \notin other_identifiers

(***************************************************************************)
(* C4: add_unit returns IdentifierClash iff the bare name or a prefixed     *)
(* form it admits is in other_identifiers or parses as a UnitIdentifier,    *)
(* and otherwise returns Ok and inserts the unit; add_other_identifier      *)
(* returns IdentifierClash iff the name is in other_identifiers or parses   *)
(* as a UnitIdentifier.  After meter (long, metric) alone: unit kilometer   *)
(* is rejected, unit m (short, metric) and other identifier kilo are        *)
(* accepted.                                                                *)
(***************************************************************************)
\* r is what add_unit returns and leaves, clash the condition of the claim
C4_AddUnitAgrees(r, clash, unit_name, info) ==
  /\ (r.result.tag = "IdentifierClash") <=> clash
  /\ ~clash =>
       /\ r.result = Ok
       /\ unit_name \in DOMAIN r.self.units
       /\ r.self.units[unit_name] = info

C4_AddUnitCase(unit_name, accepts_prefix, metric, binary, full_name) ==
  C4_AddUnitAgrees(
    add_unit(Self, unit_name, accepts_prefix, metric, binary, full_name),
    \/ Claimed(Self, unit_name)
    \/ \E i \in Entries :
         /\ Enabled(i, metric, binary)
         /\ \/ accepts_prefix.long /\ Claimed(Self, format(i, TRUE, unit_name))
            \/ accepts_prefix.short /\ Claimed(Self, format(i, FALSE, unit_name)),
    unit_name,
    UnitInfo(accepts_prefix, metric, binary, full_name))

\* r is what add_other_identifier returns and leaves, clash the condition of the claim
C4_AddOtherAgrees(r, clash, identifier) ==
  /\ (r.result.tag = "IdentifierClash") <=> clash
  /\ ~clash =>
       /\ r.result = Ok
       /\ identifier \in r.self.other_identifiers

C4_AddOtherCase(identifier) ==
  C4_AddOtherAgrees(add_other_identifier(Self, identifier), Claimed(Self, identifier), identifier)

OnlyMeter ==
  /\ DOMAIN units = {"meter"}
  /\ units["meter"] = SeedInfo(1)
  /\ other_identifiers = {}

C4_ClashIff ==
  /\ \A unit_name \in UnitNames, accepts_prefix \in AcceptsPrefix,
        family \in Families, full_name \in FullNames :
       C4_AddUnitCase(unit_name, accepts_prefix, family[1], family[2], full_name)
  /\ \A identifier \in OtherNames \cup AppliedNames : C4_AddOtherCase(identifier)
  /\ OnlyMeter =>
       /\ \A accepts_prefix \in AcceptsPrefix, family \in Families :
            add_unit(Self, "kilometer", accepts_prefix, family[1], family[2], "meter").result
              = identifier_clash_error("kilometer")
       /\ add_unit(Self, "m", only_short, TRUE, FALSE, "meter").result = Ok
       /\ add_other_identifier(Self, "kilo").result = Ok

\* unit kilometer has just been rejected after meter (long, metric) alone
C4_Witness ==
  /\ OnlyMeter
  /\ result = identifier_clash_error("kilometer")

(***************************************************************************)
(* C5, as claimed: after meter (only_long, metric) and m (only_short,       *)
(* metric) on an empty parser, add_other_identifier("kilom") returns        *)
(* IdentifierClash.                                                         *)
(***************************************************************************)
MeterAndM ==
  /\ DOMAIN units = {"meter", "m"}
  /\ units["meter"] = SeedInfo(1)
  /\ units["m"] = SeedInfo(2)

C5_KilomRejected ==
  (MeterAndM /\ other_identifiers = {}) =>
    add_other_identifier(Self, "kilom").result.tag = "IdentifierClash"

(***************************************************************************)
(* C5, amended: after meter (only_long, metric) and m (only_short, metric)  *)
(* on an empty parser, add_other_identifier("kilom") returns Ok and adds    *)
(* kilom to other_identifiers: kilom parses as Identifier, since m accepts  *)
(* no long prefix.                                                          *)
(***************************************************************************)
C5_KilomAccepted ==
  (MeterAndM /\ other_identifiers = {}) =>
    /\ parse(Self, "kilom") = Identifier("kilom")
    /\ add_other_identifier(Self, "kilom").result = Ok
    /\ add_other_identifier(Self, "kilom").self.other_identifiers = {"kilom"}

\* kilom has just been registered as another identifier after meter and m
C5_Witness ==
  /\ MeterAndM
  /\ other_identifiers = {"kilom"}
  /\ result = Ok

(***************************************************************************)
(* C6: every registered unit name u parses as                               *)
(* UnitIdentifier(Prefix::none, u, full_name(u)), also when u is a prefix   *)
(* spelling followed by another registered unit name.                       *)
(***************************************************************************)
C6_ExactMatchDominates ==
  \A u \in DOMAIN units :
    parse(Self, u) = UnitIdentifier(PrefixNone, u, units[u].full_name)

\* a registered unit name is a prefix spelling followed by another registered unit name
C6_Witness ==
  \E u \in DOMAIN units, v \in DOMAIN units : u \in Prefixed(v)

(***************************************************************************)
(* C7: whenever parse(s) is UnitIdentifier(p, u, f) with p # none, some     *)
(* table entry (L, S, p) has u registered, f = full_name(u), the family of  *)
(* p enabled on u, and s = L ++ u with u accepting long or s = S ++ u with  *)
(* u accepting short.  In the seed registry kilom, kme, kibimeter and Kim   *)
(* parse as Identifier.                                                     *)
(***************************************************************************)
C7_Consistent(s, r) ==
  (r.tag = "UnitIdentifier" /\ r.prefix # PrefixNone) =>
  \E i \in Entries :
    /\ prefixes[i][3] = r.prefix
    /\ r.unit_name \in DOMAIN units
    /\ r.full_name = units[r.unit_name].full_name
    /\ Enabled(i, units[r.unit_name].metric_prefixes, units[r.unit_name].binary_prefixes)
    /\ \/ s = format(i, TRUE, r.unit_name) /\ units[r.unit_name].accepts_prefix.long
       \/ s = format(i, FALSE, r.unit_name) /\ units[r.unit_name].accepts_prefix.short

C7_Parsed(s) == C7_Consistent(s, parse(Self, s))

SeedRegistered ==
  /\ DOMAIN units = {Seed[i][1] : i \in 1..Len(Seed)}
  /\ \A i \in 1..Len(Seed) : units[Seed[i][1]] = SeedInfo(i)

C7_PrefixConsistency ==
  /\ \A s \in FixedProbes : C7_Parsed(s)
  /\ \A u \in DOMAIN units, k \in Spellings : C7_Parsed(prefixed(k, u))
  /\ SeedRegistered =>
       \A s \in {"kilom", "kme", "kibimeter", "Kim"} : parse(Self, s) = Identifier(s)

\* the seed registry, in which km is a prefixed unit and kme is not
C7_Witness ==
  /\ SeedRegistered
  /\ parse(Self, "km") = UnitIdentifier(Metric(3), "m", "meter")
  /\ parse(Self, "kme") = Identifier("kme")

(***************************************************************************)
(* C8: parse never fails: it returns Identifier(s) for its input s, or a    *)
(* UnitIdentifier of a registered unit with that unit's full name; the      *)
(* unwrap() of the prefixed branches never meets a missing key.             *)
(***************************************************************************)
C8_Returned(s, r) ==
  \/ r = Identifier(s)
  \/ /\ r.tag = "UnitIdentifier"
     /\ r.unit_name \in DOMAIN units
     /\ r.full_name = units[r.unit_name].full_name

C8_Parsed(s) == C8_Returned(s, parse(Self, s))

C8_ParseTotal ==
  /\ \A s \in FixedProbes : C8_Parsed(s)
  /\ \A u \in DOMAIN units, k \in Spellings : C8_Parsed(prefixed(k, u))

\* a state in which a prefixed branch of parse returns, and so unwraps
C8_Unwrapped(r) == r.tag = "UnitIdentifier" /\ r.prefix # PrefixNone

C8_Witness ==
  \E u \in DOMAIN units, k \in Spellings : C8_Unwrapped(parse(Self, prefixed(k, u)))

(***************************************************************************)
(* C9: registration is monotonic: units and other_identifiers only grow,    *)
(* and the UnitInfo of a registered unit never changes.                     *)
(***************************************************************************)
C9_Monotonic ==
  [][/\ DOMAIN units \subseteq DOMAIN units'
     /\ other_identifiers \subseteq other_identifiers'
     /\ \A u \in DOMAIN units : units'[u] = units[u]]_vars

\* a call for the name of a registered unit has just been rejected
C9_Witness ==
  /\ result.tag = "IdentifierClash"
  /\ result.name \in DOMAIN units

(***************************************************************************)
(* C10: add_unit with accepts_prefix = none, or with both family flags      *)
(* false, is accepted exactly when the bare name is available, whatever     *)
(* the other flags; such a unit reserves no prefixed form: no prefix        *)
(* spelling followed by its name parses as a UnitIdentifier of it, and the  *)
(* availability of those strings is what it would be without the unit.      *)
(***************************************************************************)
Reserving(accepts_prefix, metric, binary) ==
  /\ accepts_prefix # none
  /\ metric \/ binary

Without(u) ==
  [units |-> [v \in DOMAIN units \ {u} |-> units[v]],
   other_identifiers |-> other_identifiers]

\* r is not a UnitIdentifier of unit u
C10_NotOf(u, r) == ~(r.tag = "UnitIdentifier" /\ r.unit_name = u)

C10_Unreserved(u, s) ==
  /\ C10_NotOf(u, parse(Self, s))
  /\ ensure_name_is_available(Self, s) = ensure_name_is_available(Without(u), s)

C10_NothingReserved ==
  /\ \A unit_name \in UnitNames, accepts_prefix \in AcceptsPrefix,
        metric \in BOOLEAN, binary \in BOOLEAN :
       ~Reserving(accepts_prefix, metric, binary) =>
         (add_unit(Self, unit_name, accepts_prefix, metric, binary, "meter").result = Ok
            <=> ensure_name_is_available(Self, unit_name) = Ok)
  /\ \A u \in DOMAIN units :
       ~Reserving(units[u].accepts_prefix, units[u].metric_prefixes, units[u].binary_prefixes) =>
         \A k \in Spellings : C10_Unreserved(u, prefixed(k, u))

\* a unit that accepts no prefix is registered, and so is a prefix spelling followed by its name
C10_Witness ==
  \E u \in DOMAIN units :
    /\ units[u].accepts_prefix = none
    /\ Prefixed(u) \cap (DOMAIN units \cup other_identifiers) # {}

(***************************************************************************)
(* C11: a failing add_unit carries the first unavailable name in check      *)
(* order: the bare unit name if it is unavailable, otherwise the first      *)
(* colliding prefixed string, scanning the table in declaration order with  *)
(* the long form before the short form of each entry; the name is the full  *)
(* prefixed string.  A failing add_other_identifier carries the identifier. *)
(***************************************************************************)
\* the tests of loop_tests whose prefixed string add_unit checks and finds claimed
C11_Colliding(unit_name, accepts_prefix, metric, binary) ==
  {k \in Spellings :
     /\ Enabled(loop_tests[k].entry, metric, binary)
     /\ IF loop_tests[k].long THEN accepts_prefix.long ELSE accepts_prefix.short
     /\ Claimed(Self, prefixed(k, unit_name))}

C11_First(unit_name, colliding) ==
  IF Claimed(Self, unit_name)
  THEN unit_name
  ELSE prefixed(CHOOSE k \in colliding : \A j \in colliding : k <= j, unit_name)

C11_Carries(returned, name) ==
  returned.tag = "IdentifierClash" => returned = identifier_clash_error(name)

C11_AddUnitCase(returned, unit_name, accepts_prefix, metric, binary) ==
  returned.tag = "IdentifierClash" =>
    C11_Carries(returned,
                C11_First(unit_name, C11_Colliding(unit_name, accepts_prefix, metric, binary)))

C11_FirstUnavailableName ==
  /\ \A unit_name \in UnitNames, accepts_prefix \in AcceptsPrefix \ {none},
        family \in Families \cup {<<TRUE, TRUE>>} :
       C11_AddUnitCase(add_unit(Self, unit_name, accepts_prefix, family[1], family[2], "meter").result,
                       unit_name, accepts_prefix, family[1], family[2])
  /\ \A identifier \in OtherNames \cup AppliedNames :
       C11_Carries(add_other_identifier(Self, identifier).result, identifier)

\* the last call was rejected with a name that add_unit, called here for another
\* bare name whose long and short form of one entry are both claimed, carries
C11_Witness ==
  /\ result.tag = "IdentifierClash"
  /\ \E unit_name \in UnitNames \ {result.name}, i \in Entries :
       /\ add_unit(Self, unit_name, both, TRUE, FALSE, "meter").result = result
       /\ result.name = format(i, TRUE, unit_name)
       /\ Claimed(Self, format(i, FALSE, unit_name))

(***************************************************************************)
(* C12: on any registry and for any input that is not a registered unit     *)
(* name, parse returns the decomposition of the earliest table entry that   *)
(* has a valid one, and within that entry the long form before the short    *)
(* form.                                                                    *)
(***************************************************************************)
\* test k of the loop is a valid decomposition of s: s is its spelling followed
\* by a registered unit that accepts the form and the family
C12_Valid(k, s) ==
  \E u \in DOMAIN units :
    /\ s = loop_tests[k].spelling \o u
    /\ IF loop_tests[k].long THEN units[u].accepts_prefix.long ELSE units[u].accepts_prefix.short
    /\ Enabled(loop_tests[k].entry, units[u].metric_prefixes, units[u].binary_prefixes)

C12_Before(j, k) ==
  \/ loop_tests[j].entry < loop_tests[k].entry
  \/ /\ loop_tests[j].entry = loop_tests[k].entry
     /\ loop_tests[j].long
     /\ ~loop_tests[k].long

C12_Decomposition(k, s, u) ==
  /\ s = loop_tests[k].spelling \o u
  /\ UnitIdentifier(loop_tests[k].prefix, u, units[u].full_name) = parse(Self, s)

C12_Earliest(s, valid) ==
  IF valid = {}
  THEN parse(Self, s) = Identifier(s)
  ELSE \E k \in valid :
         /\ \A j \in valid \ {k} : C12_Before(k, j)
         /\ \E u \in DOMAIN units : C12_Decomposition(k, s, u)

C12_EarliestDecomposition ==
  \A s \in ParseInputs \ DOMAIN units :
    C12_Earliest(s, {k \in Spellings : C12_Valid(k, s)})

\* parse has just resolved an input that has two valid decompositions
C12_Witness ==
  \E s \in ParseInputs \ DOMAIN units :
    /\ result = parse(Self, s)
    /\ result.tag = "UnitIdentifier"
    /\ Cardinality({k \in Spellings : C12_Valid(k, s)}) = 2

(***************************************************************************)
(* C13: in every state reached by registrations, no string has two distinct *)
(* valid prefixed decompositions (entry, form and unit, the unit accepting  *)
(* form and family), and no registered unit name has any; so parse returns  *)
(* the one valid decomposition of a string whatever the order of the table  *)
(* and of the long and short tests.                                         *)
(***************************************************************************)
\* the valid decompositions of s: the tests s passes whose remainder is a
\* registered unit that accepts the form and the family
C13_Decompositions(tests) ==
  {k \in DOMAIN tests :
     /\ tests[k].rest \in DOMAIN units
     /\ units[tests[k].rest].accepts_prefix[IF tests[k].long THEN "long" ELSE "short"]
     /\ Enabled(tests[k].entry, units[tests[k].rest].metric_prefixes,
                units[tests[k].rest].binary_prefixes)}

C13_AtMostOne(s, tests, valid) ==
  /\ Cardinality(valid) <= 1
  /\ s \in DOMAIN units => valid = {}
  /\ \A k \in valid :
       /\ parse(Self, s) =
            UnitIdentifier(tests[k].prefix, tests[k].rest, units[tests[k].rest].full_name)
       /\ parse_from_last(Self, s, tests, 1) = parse(Self, s)

C13_Unambiguous(s) ==
  C13_AtMostOne(s, PassedTests[s], C13_Decompositions(PassedTests[s]))

C13_Unambiguity ==
  /\ \A u \in DOMAIN units : C13_Unambiguous(u)
  /\ \A u \in DOMAIN units, k \in Spellings : C13_Unambiguous(prefixed(k, u))

\* ilom, whose short form kilom is the long form of the registered m, has just been rejected
C13_Witness ==
  /\ DOMAIN units = {"m"}
  /\ units["m"].accepts_prefix.long
  /\ units["m"].metric_prefixes
  /\ result = identifier_clash_error("kilom")

(***************************************************************************)
(* C14: for every registered unit U and every table entry (L, S, k) whose   *)
(* family is enabled on U, parse(L ++ U) = UnitIdentifier(k, U,             *)
(* full_name(U)) if U accepts long forms, and parse(S ++ U) is the same if  *)
(* U accepts short forms: no other prefix, other unit or exact match        *)
(* captures an admitted form.                                               *)
(***************************************************************************)
C14_Resolves(accepted, s, expected) == accepted => parse(Self, s) = expected

C14_Entry(i, u, expected) ==
  Enabled(i, units[u].metric_prefixes, units[u].binary_prefixes) =>
    /\ C14_Resolves(units[u].accepts_prefix.long, format(i, TRUE, u), expected)
    /\ C14_Resolves(units[u].accepts_prefix.short, format(i, FALSE, u), expected)

C14_Completeness ==
  \A u \in DOMAIN units, i \in Entries :
    C14_Entry(i, u, UnitIdentifier(prefixes[i][3], u, units[u].full_name))

\* m and ilom are registered and accept short metric prefixes: kilom is the
\* short form k ++ ilom, and also kilo ++ m, which m does not admit
C14_Witness ==
  /\ {"m", "ilom"} \subseteq DOMAIN units
  /\ result = Ok
  /\ units["m"].accepts_prefix.short /\ units["m"].metric_prefixes
  /\ units["ilom"].accepts_prefix.short /\ units["ilom"].metric_prefixes
  /\ parse(Self, "km") = UnitIdentifier(Metric(3), "m", "meter")
  /\ parse(Self, "kilom") = UnitIdentifier(Metric(3), "ilom", "meter")

(***************************************************************************)
(* C15: every member n of other_identifiers parses as Identifier(n),        *)
(* whichever units were registered before or after it.                      *)
(***************************************************************************)
C15_OthersNotShadowed ==
  \A n \in other_identifiers : parse(Self, n) = Identifier(n)

\* a unit is registered beside an other identifier made of a prefix spelling
\* and that unit's name, and a registration has just been rejected with it
C15_Witness ==
  /\ result.tag = "IdentifierClash"
  /\ result.name \in other_identifiers
  /\ \E u \in DOMAIN units : result.name \in Prefixed(u)

(***************************************************************************)
(* C16: a string that parses as UnitIdentifier(p, u, f) parses as the same  *)
(* UnitIdentifier(p, u, f) after every further add_unit and                 *)
(* add_other_identifier call: a registration can turn an Identifier into a  *)
(* UnitIdentifier, and never changes or removes a unit resolution.          *)
(***************************************************************************)
\* parse reads nothing but the parser, so only the steps that change the parser
\* can change a result
C16_Kept(s, r) == r.tag = "UnitIdentifier" => parse(SelfNext, s) = r

C16_Stable(s) == C16_Kept(s, parse(Self, s))

C16_ResolutionStable ==
  [][SelfNext # Self =>
       /\ \A s \in OverlapNames \cup ParseInputs : C16_Stable(s)
       /\ \A u \in DOMAIN units, k \in Spellings : C16_Stable(prefixed(k, u))]_vars

\* am was registered beside m, and dam, which is d ++ am and da ++ m, resolves
C16_Witness ==
  /\ {"m", "am"} \subseteq DOMAIN units
  /\ result = Ok
  /\ parse(Self, "dam").tag = "UnitIdentifier"

(***************************************************************************)
(* C17: the table lists every metric entry before every binary entry; the   *)
(* metric exponents are -30, -27, -24, -21, -18, -15, -12, -9, -6, -3, -2,  *)
(* -1, 1, 2, 3, 6, 9, 12, 15, 18, 21, 24, 27, 30 in this strictly ascending *)
(* order (deca after deci and before hecto), the binary exponents are 10,   *)
(* 20, ..., 80 in ascending order, each once; no operation changes the      *)
(* table: after every call parse resolves with these prefixes only.         *)
(***************************************************************************)
C17_MetricExponents ==
  <<-30, -27, -24, -21, -18, -15, -12, -9, -6, -3, -2, -1,
    1, 2, 3, 6, 9, 12, 15, 18, 21, 24, 27, 30>>

C17_BinaryExponents == <<10, 20, 30, 40, 50, 60, 70, 80>>

C17_Ascending(exponents) ==
  \A i \in DOMAIN exponents, j \in DOMAIN exponents : i < j => exponents[i] < exponents[j]

\* the prefixes of the table as the claim lists them, and no prefix
C17_Prefixes ==
  {Metric(C17_MetricExponents[i]) : i \in DOMAIN C17_MetricExponents}
    \cup {Binary(C17_BinaryExponents[i]) : i \in DOMAIN C17_BinaryExponents}
    \cup {PrefixNone}

C17_FromTable(r) == r.tag = "UnitIdentifier" => r.prefix \in C17_Prefixes

C17_Table ==
  /\ Len(prefixes) = Len(C17_MetricExponents) + Len(C17_BinaryExponents)
  /\ \A i \in DOMAIN C17_MetricExponents :
       prefixes[i][3] = Metric(C17_MetricExponents[i])
  /\ \A i \in DOMAIN C17_BinaryExponents :
       prefixes[Len(C17_MetricExponents) + i][3] = Binary(C17_BinaryExponents[i])
  /\ \A i \in Entries, j \in Entries :
       (is_metric(prefixes[i][3]) /\ is_binary(prefixes[j][3])) => i < j
  /\ C17_Ascending(C17_MetricExponents)
  /\ C17_Ascending(C17_BinaryExponents)
  /\ \E i \in Entries :
       /\ prefixes[i] = <<"deca", "da", Metric(1)>>
       /\ prefixes[i - 1] = <<"deci", "d", Metric(-1)>>
       /\ prefixes[i + 1] = <<"hecto", "h", Metric(2)>>
  /\ \A i \in Entries :
       /\ loop_tests[2 * i - 1].spelling = prefixes[i][1]
       /\ loop_tests[2 * i].spelling = prefixes[i][2]
       /\ loop_tests[2 * i].prefix = prefixes[i][3]

C17_TableOrder ==
  /\ C17_Table
  /\ \A s \in FixedProbes : C17_FromTable(parse(Self, s))

\* registrations have been made, and parse resolves a deca form and a kibi form
C17_Witness ==
  /\ result = Ok
  /\ "m" \in DOMAIN units
  /\ \/ parse(Self, "dam") = UnitIdentifier(Metric(1), "m", "meter")
     \/ parse(Self, "Kim") = UnitIdentifier(Binary(10), "m", "meter")

(***************************************************************************)
(* C18: in add_other_identifier the check after the insert never fails:     *)
(* whenever ensure_name_is_available succeeds the identifier is not in      *)
(* other_identifiers, so insert returns true; a duplicate                   *)
(* add_other_identifier is rejected by the first check and leaves the set   *)
(* as it was.                                                               *)
(***************************************************************************)
C18_Case(identifier, checked, r) ==
  /\ checked = Ok =>
       /\ identifier \notin other_identifiers
       /\ r = outcome([Self EXCEPT !.other_identifiers = @ \cup {identifier}], Ok)
  /\ identifier \in other_identifiers =>
       /\ checked = identifier_clash_error(identifier)
       /\ r = outcome(Self, checked)

C18_SecondCheckUnreachable ==
  \A identifier \in OtherNames \cup AppliedNames :
    C18_Case(identifier,
             ensure_name_is_available(Self, identifier),
             add_other_identifier(Self, identifier))

\* Kim is the one registered name, and a call has just been rejected with it
C18_Witness ==
  /\ units = <<>>
  /\ other_identifiers = {"Kim"}
  /\ result = identifier_clash_error("Kim")

====
